---- MODULE Spec2Model ----
(***************************************************************************)
(* Model of SAM/generate_docs.py: a script that builds a python-docx       *)
(* document block by block and saves it.  The document is a sequence of    *)
(* paragraph blocks; each helper of the script is modelled at the          *)
(* granularity of its own statements.                                      *)
(***************************************************************************)
EXTENDS Integers, Sequences, FiniteSets, TLC

VARIABLES
    pc,             \* position of the process
    name,           \* __name__ of the module: "__main__" or "generate_docs"
    docx_available, \* can 'from docx import ...' be satisfied
    output_path,    \* argument of the running generate_doc call
    ip,             \* next statement of generate_doc (0 = Document())
    call,           \* the helper call being executed, or NoCall
    sub,            \* position inside the running helper
    document,       \* the python-docx document: a sequence of blocks
    entry_doc,      \* the document as it was when the helper was entered
    done_call,      \* the helper call that returned last
    fs,             \* the file system: path -> file
    stdout,         \* what the process printed
    stderr,         \* the SystemExit message, if any
    exit_code,      \* exit code of the process, -1 while it runs
    calls,          \* number of generate_doc invocations so far
    nsaves,         \* document.save calls made by the running invocation
    result,         \* how the last generate_doc invocation ended
    saved           \* log of completed saves: <<[call, path, blocks, before]>>

vars == <<pc, name, docx_available, output_path, ip, call, sub, document,
          entry_doc, done_call, fs, stdout, stderr, exit_code, calls,
          nsaves, result, saved>>

-----------------------------------------------------------------------------
(* Bounds *)

MaxCalls == 2

MaxTick == 2

TicksPerMinute == 2

MaxItems == 2

MaxDocLen == 2

MaxLevel == 2

-----------------------------------------------------------------------------
(* Python values and the python-docx block model *)

None == "None"

PyBool(b) == IF b THEN "True" ELSE "False"

OUTPUT_NAME == "SAM_Project_Documentation.docx"

MissingDependencyMessage ==
    "Missing dependency 'python-docx'. Please install it: pip install python-docx"

\* WD_ALIGN_PARAGRAPH members
WD_CENTER == "CENTER"

WD_RIGHT == "RIGHT"

\* A run as python-docx creates it: character formatting inherited.
NewRun(text) == [text |-> text, bold |-> None, italic |-> None]

\* Document.add_paragraph(text='', style=None): a run is added only for a
\* non-empty text; no style means the default paragraph style.
LibParagraph(text, style) ==
    [style     |-> IF style = None THEN "Normal" ELSE style,
     runs      |-> IF text = "" THEN <<>> ELSE <<NewRun(text)>>,
     alignment |-> None]

\* Document.add_heading(text, level): style "Title" for level 0, else
\* "Heading <level>"; the heading is an ordinary paragraph with that style.
HeadingStyle(level) == IF level = 0 THEN "Title" ELSE "Heading " \o ToString(level)

LibAddHeading(doc, text, level) == Append(doc, LibParagraph(text, HeadingStyle(level)))

RECURSIVE RunsText(_)
RunsText(runs) ==
    IF runs = <<>> THEN "" ELSE Head(runs).text \o RunsText(Tail(runs))

\* Paragraph.text
BlockText(b) == RunsText(b.runs)

\* Rendered alignment: an unset alignment is inherited, which is left.
EffectiveAlignment(b) == IF b.alignment = None THEN "LEFT" ELSE b.alignment

IsHeading(b) == b.style \in {HeadingStyle(l) : l \in 0..9}

HeadingLevel(b) == CHOOSE l \in 0..9 : b.style = HeadingStyle(l)

IsListItem(b) == b.style \in {"List Bullet", "List Number"}

-----------------------------------------------------------------------------
(* datetime.now().strftime('%Y-%m-%d %H:%M'): the clock is read in ticks,  *)
(* the format keeps minutes and drops everything below.  The ticks of a    *)
(* behaviour fall within one hour of one day, whose date and hour are the  *)
(* fixed prefix of the stamp.                                              *)

Pad2(n) == IF n < 10 THEN "0" \o ToString(n) ELSE ToString(n)

Strftime(t) == "2026-11-02 12:" \o Pad2((t \div TicksPerMinute) % 60)

-----------------------------------------------------------------------------
(* Paths: sequences of components *)

ScriptFile == <<"srv", "SAM", "generate_docs.py">>

Dirname(p) == SubSeq(p, 1, Len(p) - 1)

Join(dir, leaf) == Append(dir, leaf)

Paths == {Join(Dirname(ScriptFile), OUTPUT_NAME), <<"tmp", "out.docx">>}

NoFile == [state |-> "absent", blocks |-> <<>>]

OldFile == [state |-> "docx", blocks |-> <<LibParagraph("stale", None)>>]

Truncated == [state |-> "truncated", blocks |-> <<>>]

Written(doc) == [state |-> "docx", blocks |-> doc]

-----------------------------------------------------------------------------
(* The statements of generate_doc, section by section.  The literals are   *)
(* the source's; a grave accent, which a TLA+ string cannot hold, is       *)
(* written as an apostrophe.                                               *)

NoCall == [op |-> "none"]

Heading(text, level) == [op |-> "add_heading", text |-> text, level |-> level]

Para(text, bold, italic, alignment) ==
    [op |-> "add_paragraph", text |-> text, bold |-> bold, italic |-> italic,
     alignment |-> alignment]

Bullets(items) == [op |-> "add_bullets", items |-> items]

Numbered(items) == [op |-> "add_numbered", items |-> items]

Styled(text, style) == [op |-> "document.add_paragraph", text |-> text, style |-> style]

CoverSection(t) == <<
    Heading("Segment Anything Model (SAM) - Project Documentation", 0),
    Para("Generated: " \o Strftime(t), FALSE, TRUE, None),
    Para("Audience: Project Manager, Software Engineer", FALSE, TRUE, None) >>

ExecutiveSummarySection == <<
    Heading("1. Executive Summary", 1),
    Para("This project integrates Meta AI's Segment Anything Model (SAM) to enable fast, flexible "
         \o "image segmentation. It includes a Python backend library and a TypeScript demo UI for "
         \o "interactive segmentation and ONNX inference.", FALSE, FALSE, None),
    Bullets(<<
        "Outcome: Generate high-quality object masks from images with minimal prompts",
        "Deliverables: Python package, demo web app, example notebooks, output masks",
        "Stakeholders: PM, ML/Software Engineers",
        "Status: Ready for local runs and demonstrations" >>) >>

ScopeObjectivesSectionReordered == <<
    Heading("2. Scope & Objectives", 1),
    Bullets(<<
        "Provide automatic mask generation utility",
        "Integrate SAM core components for promptable segmentation",
        "Export model to ONNX and demo browser inference",
        "Offer notebooks for common usage patterns" >>) >>

ScopeObjectivesSection == <<
    Heading("2. Scope & Objectives", 1),
    Bullets(<<
        "Integrate SAM core components for promptable segmentation",
        "Provide automatic mask generation utility",
        "Export model to ONNX and demo browser inference",
        "Offer notebooks for common usage patterns" >>) >>

ArchitectureSection == <<
    Heading("3. Architecture Overview", 1),
    Para("High-level components:", FALSE, FALSE, None),
    Numbered(<<
        "Python package ('segment_anything/'): model, encoders, decoders, utilities",
        "Scripts ('scripts/'): automatic mask generator, ONNX export",
        "Notebooks ('notebooks/'): runnable examples",
        "Web demo ('segment-anything/demo/'): React + TypeScript UI",
        "Artifacts ('output_dir/'): generated masks and overlays" >>) >>

KeyDirectoriesSection == <<
    Heading("4. Key Directories & Files", 1),
    Bullets(<<
        "segment_anything/modeling/sam.py: SAM model assembly",
        "segment_anything/predictor.py: High-level predictor API",
        "segment_anything/automatic_mask_generator.py: Batch/auto mask generation",
        "segment_anything/utils/onnx.py: ONNX export helpers",
        "scripts/amg.py: CLI for automatic mask generation",
        "scripts/export_onnx_model.py: Export to ONNX",
        "segment-anything/demo/src: Frontend demo application",
        "output_dir/mask/*.png: Generated masks",
        "output_dir/mask_overlay.png: Composite overlay" >>) >>

SetupSection == <<
    Heading("5. Setup & Installation", 1),
    Para("Prerequisites:", FALSE, FALSE, None),
    Bullets(<<
        "Python 3.9+ with pip",
        "Node.js 16+ (for web demo)",
        "GPU optional; CPU works for demos (slower)" >>),
    Para("Python package install:", FALSE, FALSE, None),
    Styled("pip install -e .", "Intense Quote"),
    Para("Optional extras: PyTorch, onnxruntime, onnxruntime-gpu depending on environment.",
         FALSE, FALSE, None) >>

UsagePythonSection == <<
    Heading("6. Usage - Python", 1),
    Para("Predictor example (points, boxes, masks): see 'notebooks/predictor_example.ipynb'.",
         FALSE, FALSE, None),
    Para("Automatic mask generation:", FALSE, FALSE, None),
    Styled("python scripts/amg.py --input <image_or_folder> --output output_dir/",
           "Intense Quote") >>

OnnxWebDemoSection == <<
    Heading("7. ONNX & Web Demo", 1),
    Para("Export ONNX model:", FALSE, FALSE, None),
    Styled("python scripts/export_onnx_model.py --checkpoint <path_to_ckpt> --output sam.onnx",
           "Intense Quote"),
    Para("Run demo app:", FALSE, FALSE, None),
    Styled("cd segment-anything/demo && npm ci && npm run dev", "Intense Quote") >>

DataFlowSection == <<
    Heading("8. Data Flow", 1),
    Bullets(<<
        "Input image loaded and preprocessed (transforms)",
        "Prompt encoding (points/boxes/masks)",
        "Image encoding via vision transformer",
        "Mask decoding conditioned on prompts",
        "Post-processing and thresholding to produce binary masks" >>) >>

QualitySection == <<
    Heading("9. Quality, Performance, and Risks", 1),
    Bullets(<<
        "Deterministic inference given fixed prompts",
        "Performance depends on model size and hardware",
        "Memory use may be high for large images",
        "ONNX runtime on CPU may be slow; prefer GPU if available" >>) >>

RoadmapSection == <<
    Heading("10. Roadmap & Next Steps", 1),
    Bullets(<<
        "Add CLI for promptable single-image segmentation",
        "Dockerize demo and backend for easier deployment",
        "Provide evaluation scripts and metrics",
        "Integrate continuous testing and linting in CI" >>) >>

AppendixSection == <<
    Heading("Appendix A: References", 1),
    Bullets(<<
        "README.md for overall guidance",
        "Notebooks for hands-on examples",
        "Demo 'README.md' for web UI" >>) >>

\* Mutant: two sections emitted in the wrong order.
ProgramSwapped(t) ==
    CoverSection(t) \o ScopeObjectivesSection \o ExecutiveSummarySection
    \o ArchitectureSection \o KeyDirectoriesSection \o SetupSection
    \o UsagePythonSection \o OnnxWebDemoSection \o DataFlowSection
    \o QualitySection \o RoadmapSection \o AppendixSection

\* The body of generate_doc between Document() and document.save(), the
\* clock being read at tick t.
Program(t) ==
    CoverSection(t) \o ExecutiveSummarySection \o ScopeObjectivesSection
    \o ArchitectureSection \o KeyDirectoriesSection \o SetupSection
    \o UsagePythonSection \o OnnxWebDemoSection \o DataFlowSection
    \o QualitySection \o RoadmapSection \o AppendixSection

NumStatements == Len(Program(0))

\* Mutant: the save is issued one statement early.
SavePointEarly == NumStatements

\* ip at which document.save(output_path) is the next statement.
SavePoint == NumStatements + 1

-----------------------------------------------------------------------------
(* Helpers (lines 15-38).  Each acts on the running call and the document. *)

procVars == <<pc, name, docx_available, output_path, ip, fs, stdout, stderr,
              exit_code, calls, nsaves, result, saved>>

\* Index of the paragraph p that add_paragraph created.
P == Len(entry_doc) + 1

Return == call' = NoCall /\ done_call' = call /\ sub' = 0

\* add_heading, line 16
AddHeading ==
    /\ call.op = "add_heading"
    /\ document' = LibAddHeading(document, call.text, call.level)
    /\ Return
    /\ UNCHANGED <<procVars, entry_doc>>

\* add_paragraph, line 20: p = document.add_paragraph()
AddParagraphNew ==
    /\ call.op = "add_paragraph" /\ sub = 0
    /\ document' = Append(document, LibParagraph("", None))
    /\ sub' = 1
    /\ UNCHANGED <<procVars, call, entry_doc, done_call>>

\* add_paragraph, line 21: run = p.add_run(text)
AddParagraphRun ==
    /\ call.op = "add_paragraph" /\ sub = 1
    /\ document' = [document EXCEPT ![P].runs = Append(@, NewRun(call.text))]
    /\ sub' = 2
    /\ UNCHANGED <<procVars, call, entry_doc, done_call>>

\* add_paragraph, line 22: run.bold = bold
AddParagraphBold ==
    /\ call.op = "add_paragraph" /\ sub = 2
    /\ document' = [document EXCEPT ![P].runs[Len(document[P].runs)].bold = PyBool(call.bold)]
    /\ sub' = 3
    /\ UNCHANGED <<procVars, call, entry_doc, done_call>>

\* add_paragraph, line 23: run.italic = italic
AddParagraphItalic ==
    /\ call.op = "add_paragraph" /\ sub = 3
    /\ document' = [document EXCEPT ![P].runs[Len(document[P].runs)].italic = PyBool(call.italic)]
    /\ sub' = 4
    /\ UNCHANGED <<procVars, call, entry_doc, done_call>>

\* Mutant: the two alignment branches are swapped.
AddParagraphAlignSwapped ==
    /\ call.op = "add_paragraph" /\ sub = 4
    /\ document' =
         IF call.alignment = "center"
         THEN [document EXCEPT ![P].alignment = WD_RIGHT]
         ELSE IF call.alignment = "right"
         THEN [document EXCEPT ![P].alignment = WD_CENTER]
         ELSE document
    /\ sub' = 5
    /\ UNCHANGED <<procVars, call, entry_doc, done_call>>

\* add_paragraph, lines 24-27: the alignment branches
AddParagraphAlign ==
    /\ call.op = "add_paragraph" /\ sub = 4
    /\ document' =
         IF call.alignment = "center"
         THEN [document EXCEPT ![P].alignment = WD_CENTER]
         ELSE IF call.alignment = "right"
         THEN [document EXCEPT ![P].alignment = WD_RIGHT]
         ELSE document
    /\ sub' = 5
    /\ UNCHANGED <<procVars, call, entry_doc, done_call>>

\* add_paragraph, line 28: return p
AddParagraphReturn ==
    /\ call.op = "add_paragraph" /\ sub = 5
    /\ Return
    /\ UNCHANGED <<procVars, document, entry_doc>>

\* Mutant: the loop walks the items from the end.
AddBulletsItemReversed ==
    /\ call.op = "add_bullets" /\ sub < Len(call.items)
    /\ document' = Append(document,
                          LibParagraph(call.items[Len(call.items) - sub], "List Bullet"))
    /\ sub' = sub + 1
    /\ UNCHANGED <<procVars, call, entry_doc, done_call>>

\* add_bullets, lines 32-33: one iteration of the loop
AddBulletsItem ==
    /\ call.op = "add_bullets" /\ sub < Len(call.items)
    /\ document' = Append(document, LibParagraph(call.items[sub + 1], "List Bullet"))
    /\ sub' = sub + 1
    /\ UNCHANGED <<procVars, call, entry_doc, done_call>>

\* add_bullets, line 32: the loop is exhausted
AddBulletsDone ==
    /\ call.op = "add_bullets" /\ sub = Len(call.items)
    /\ Return
    /\ UNCHANGED <<procVars, document, entry_doc>>

\* Mutant: each item is inserted at the front of the document.
AddNumberedItemPrepend ==
    /\ call.op = "add_numbered" /\ sub < Len(call.items)
    /\ document' = <<LibParagraph(call.items[sub + 1], "List Number")>> \o document
    /\ sub' = sub + 1
    /\ UNCHANGED <<procVars, call, entry_doc, done_call>>

\* add_numbered, lines 37-38: one iteration of the loop
AddNumberedItem ==
    /\ call.op = "add_numbered" /\ sub < Len(call.items)
    /\ document' = Append(document, LibParagraph(call.items[sub + 1], "List Number"))
    /\ sub' = sub + 1
    /\ UNCHANGED <<procVars, call, entry_doc, done_call>>

\* add_numbered, line 37: the loop is exhausted
AddNumberedDone ==
    /\ call.op = "add_numbered" /\ sub = Len(call.items)
    /\ Return
    /\ UNCHANGED <<procVars, document, entry_doc>>

HelperStep ==
    \/ AddHeading
    \/ AddParagraphNew
    \/ AddParagraphRun
    \/ AddParagraphBold
    \/ AddParagraphItalic
    \/ AddParagraphAlign
    \/ AddParagraphReturn
    \/ AddBulletsItem
    \/ AddBulletsDone
    \/ AddNumberedItem
    \/ AddNumberedDone

-----------------------------------------------------------------------------
(* The module body and generate_doc *)

\* Mutant: the import failure is swallowed and the module goes on.
ImportGuardSwallow ==
    /\ pc = "import"
    /\ pc' = "name_check"
    /\ UNCHANGED <<name, docx_available, output_path, ip, call, sub, document,
                   entry_doc, done_call, fs, stdout, stderr, exit_code, calls,
                   nsaves, result, saved>>

\* lines 4-9: try: from docx import ... except: raise SystemExit(message)
ImportGuard ==
    /\ pc = "import"
    /\ IF docx_available
       THEN pc' = "name_check" /\ UNCHANGED <<stderr, exit_code>>
       ELSE /\ pc' = "exit_missing_dep"
            /\ stderr' = MissingDependencyMessage
            /\ exit_code' = 1
    /\ UNCHANGED <<name, docx_available, output_path, ip, call, sub, document,
                   entry_doc, done_call, fs, stdout, calls, nsaves, result, saved>>

\* line 169: if __name__ == "__main__"; an importing client gets the
\* module's functions instead.
NameCheck ==
    /\ pc = "name_check"
    /\ pc' = IF name = "__main__" THEN "main" ELSE "client"
    /\ UNCHANGED <<name, docx_available, output_path, ip, call, sub, document,
                   entry_doc, done_call, fs, stdout, stderr, exit_code, calls,
                   nsaves, result, saved>>

\* Entry of generate_doc(path), line 41.
EnterGenerate(path) ==
    /\ pc' = "gen"
    /\ output_path' = path
    /\ ip' = 0
    /\ calls' = calls + 1
    /\ nsaves' = 0
    /\ result' = "none"
    /\ UNCHANGED <<name, docx_available, call, sub, document, entry_doc,
                   done_call, fs, stdout, stderr, exit_code, saved>>

\* lines 170-171: out_path = os.path.join(os.path.dirname(__file__), OUTPUT_NAME)
MainCall ==
    /\ pc = "main"
    /\ EnterGenerate(Join(Dirname(ScriptFile), OUTPUT_NAME))

\* A client that imported the module calls generate_doc(path).
ClientCall ==
    /\ pc = "client"
    /\ calls < MaxCalls
    /\ \E path \in Paths : EnterGenerate(path)

\* Mutant: the document outlives the call (a module-level document).
NewDocumentShared ==
    /\ pc = "gen" /\ ip = 0
    /\ ip' = 1
    /\ UNCHANGED <<pc, name, docx_available, output_path, call, sub, document,
                   entry_doc, done_call, fs, stdout, stderr, exit_code, calls,
                   nsaves, result, saved>>

\* line 42: document = Document()
NewDocument ==
    /\ pc = "gen" /\ ip = 0
    /\ document' = <<>>
    /\ ip' = 1
    /\ UNCHANGED <<pc, name, docx_available, output_path, call, sub,
                   entry_doc, done_call, fs, stdout, stderr, exit_code, calls,
                   nsaves, result, saved>>

\* A statement of lines 45-164 that calls a helper; the f-string of line 46
\* reads the clock while the arguments are evaluated.
GenCallHelper ==
    /\ pc = "gen" /\ call.op = "none"
    /\ 1 <= ip /\ ip < SavePoint
    /\ \E t \in 0..MaxTick :
          LET s == Program(t)[ip] IN
          /\ s.op # "document.add_paragraph"
          /\ call' = s
    /\ sub' = 0
    /\ entry_doc' = document
    /\ ip' = ip + 1
    /\ UNCHANGED <<pc, name, docx_available, output_path, document, done_call,
                   fs, stdout, stderr, exit_code, calls, nsaves, result, saved>>

\* lines 105, 112, 120, 125: document.add_paragraph(text, style="Intense Quote")
GenAddStyled ==
    /\ pc = "gen" /\ call.op = "none"
    /\ 1 <= ip /\ ip < SavePoint
    /\ LET s == Program(0)[ip] IN
          /\ s.op = "document.add_paragraph"
          /\ document' = Append(document, LibParagraph(s.text, s.style))
    /\ ip' = ip + 1
    /\ UNCHANGED <<pc, name, docx_available, output_path, call, sub, entry_doc,
                   done_call, fs, stdout, stderr, exit_code, calls, nsaves,
                   result, saved>>

AtSave == pc = "gen" /\ call.op = "none" /\ ip = SavePoint

\* Mutant: an existing file is kept instead of being overwritten.
SaveOkKeepExisting ==
    /\ AtSave
    /\ fs' = IF fs[output_path].state = "absent"
             THEN [fs EXCEPT ![output_path] = Written(document)]
             ELSE fs
    /\ saved' = Append(saved, [call |-> calls, path |-> output_path,
                               blocks |-> document, before |-> fs[output_path]])
    /\ nsaves' = nsaves + 1
    /\ result' = "returned"
    /\ pc' = IF name = "__main__" THEN "print" ELSE "client"
    /\ UNCHANGED <<name, docx_available, output_path, ip, call, sub, document,
                   entry_doc, done_call, stdout, stderr, exit_code, calls>>

\* line 166: document.save(output_path) succeeds, replacing whatever the
\* path held; generate_doc returns.
SaveOk ==
    /\ AtSave
    /\ fs' = [fs EXCEPT ![output_path] = Written(document)]
    /\ saved' = Append(saved, [call |-> calls, path |-> output_path,
                               blocks |-> document, before |-> fs[output_path]])
    /\ nsaves' = nsaves + 1
    /\ result' = "returned"
    /\ pc' = IF name = "__main__" THEN "print" ELSE "client"
    /\ UNCHANGED <<name, docx_available, output_path, ip, call, sub, document,
                   entry_doc, done_call, stdout, stderr, exit_code, calls>>

\* Mutant: the failure of the save is caught and the run goes on.
SaveFailCaught ==
    /\ AtSave
    /\ \/ fs' = fs
       \/ fs' = [fs EXCEPT ![output_path] = Truncated]
    /\ nsaves' = nsaves + 1
    /\ result' = "returned"
    /\ pc' = IF name = "__main__" THEN "print" ELSE "client"
    /\ UNCHANGED <<name, docx_available, output_path, ip, call, sub, document,
                   entry_doc, done_call, stdout, stderr, exit_code, calls, saved>>

\* line 166: document.save(output_path) raises, either before the file is
\* opened or while the package is being written; nothing catches it.
SaveFail ==
    /\ AtSave
    /\ \/ fs' = fs
       \/ fs' = [fs EXCEPT ![output_path] = Truncated]
    /\ nsaves' = nsaves + 1
    /\ result' = "raised"
    /\ IF name = "__main__"
       THEN pc' = "exit_error" /\ exit_code' = 1
       ELSE pc' = "client" /\ UNCHANGED exit_code
    /\ UNCHANGED <<name, docx_available, output_path, ip, call, sub, document,
                   entry_doc, done_call, stdout, stderr, calls, saved>>

\* line 172: print(f"Wrote documentation to: {out_path}"), then the process
\* ends normally.
PrintWrote ==
    /\ pc = "print"
    /\ stdout' = Append(stdout, [text |-> "Wrote documentation to: ", path |-> output_path])
    /\ pc' = "exit_ok"
    /\ exit_code' = 0
    /\ UNCHANGED <<name, docx_available, output_path, ip, call, sub, document,
                   entry_doc, done_call, fs, stderr, calls, nsaves, result, saved>>

Init ==
    /\ pc = "import"
    /\ name \in {"__main__", "generate_docs"}
    /\ docx_available \in BOOLEAN
    /\ output_path = <<>>
    /\ ip = 0
    /\ call = NoCall
    /\ sub = 0
    /\ document = <<>>
    /\ entry_doc = <<>>
    /\ done_call = NoCall
    /\ fs \in [Paths -> {NoFile, OldFile}]
    /\ stdout = <<>>
    /\ stderr = ""
    /\ exit_code = -1
    /\ calls = 0
    /\ nsaves = 0
    /\ result = "none"
    /\ saved = <<>>

Next ==
    \/ ImportGuard
    \/ NameCheck
    \/ MainCall
    \/ ClientCall
    \/ NewDocument
    \/ GenCallHelper
    \/ GenAddStyled
    \/ HelperStep
    \/ SaveOk
    \/ SaveFail
    \/ PrintWrote

Spec == Init /\ [][Next]_vars

-----------------------------------------------------------------------------
(* The helpers on their own: any document, any arguments, one call. *)

RECURSIVE SeqsUpTo(_, _)
SeqsUpTo(S, n) ==
    IF n = 0 THEN {<<>>}
    ELSE LET shorter == SeqsUpTo(S, n - 1) IN
         shorter \cup {Append(q, x) : q \in shorter, x \in S}

TestTexts == {"", "a", "b"}

TestBlocks == {LibParagraph("x", None), LibParagraph("y", "List Bullet")}

TestAlignments == {None, "left", "center", "right", "justify", "CENTER"}

TestCalls ==
    {Heading(t, l) : t \in TestTexts, l \in 0..MaxLevel}
    \cup {Para(t, b, i, a) : t \in TestTexts, b \in BOOLEAN, i \in BOOLEAN,
                             a \in TestAlignments}
    \cup {Bullets(q) : q \in SeqsUpTo(TestTexts, MaxItems)}
    \cup {Numbered(q) : q \in SeqsUpTo(TestTexts, MaxItems)}

InitHelpers ==
    /\ pc = "test"
    /\ name = "generate_docs"
    /\ docx_available = TRUE
    /\ output_path = <<>>
    /\ ip = 0
    /\ call = NoCall
    /\ sub = 0
    /\ document \in SeqsUpTo(TestBlocks, MaxDocLen)
    /\ entry_doc = <<>>
    /\ done_call = NoCall
    /\ fs = [p \in Paths |-> NoFile]
    /\ stdout = <<>>
    /\ stderr = ""
    /\ exit_code = -1
    /\ calls = 0
    /\ nsaves = 0
    /\ result = "none"
    /\ saved = <<>>

\* A caller invokes one helper on the document.
TestCall ==
    /\ pc = "test" /\ call.op = "none" /\ done_call.op = "none"
    /\ call' \in TestCalls
    /\ sub' = 0
    /\ entry_doc' = document
    /\ UNCHANGED <<procVars, document, done_call>>

NextHelpers == TestCall \/ HelperStep

SpecHelpers == InitHelpers /\ [][NextHelpers]_vars

-----------------------------------------------------------------------------
(* Observations used by the properties *)

HeadingsOf(doc) == SelectSeq(doc, IsHeading)

HeadingLevels(doc) ==
    LET h == HeadingsOf(doc) IN [i \in 1..Len(h) |-> HeadingLevel(h[i])]

HeadingTexts(doc) ==
    LET h == HeadingsOf(doc) IN [i \in 1..Len(h) |-> BlockText(h[i])]

\* The document saved by the call that has just returned.
LastSaved == saved[Len(saved)]

CountStyle(doc, styles) == Cardinality({i \in 1..Len(doc) : doc[i].style \in styles})

IsPrefix(a, b) == Len(a) <= Len(b) /\ SubSeq(b, 1, Len(a)) = a

\* The maximal runs of consecutive list items of one list style.
RunStarts(doc) ==
    {i \in 1..Len(doc) :
        IsListItem(doc[i]) /\ (i = 1 \/ doc[i - 1].style # doc[i].style)}

RunEnd(doc, i) ==
    CHOOSE j \in i..Len(doc) :
        /\ \A k \in i..j : doc[k].style = doc[i].style
        /\ (j = Len(doc) \/ doc[j + 1].style # doc[i].style)

NthStart(doc, n) ==
    CHOOSE i \in RunStarts(doc) : Cardinality({j \in RunStarts(doc) : j < i}) = n - 1

ListRuns(doc) ==
    [n \in 1..Cardinality(RunStarts(doc)) |->
        LET s == NthStart(doc, n)
            e == RunEnd(doc, s)
        IN  [style |-> doc[s].style,
             items |-> [k \in 1..(e - s + 1) |-> BlockText(doc[s + k - 1])]]]

IsListCall(c) == c.op \in {"add_bullets", "add_numbered"}

ListStyleOf(c) == IF c.op = "add_bullets" THEN "List Bullet" ELSE "List Number"

\* The lists written in the generator, in source order.
LiteralLists ==
    LET L == SelectSeq(Program(0), IsListCall)
    IN  [i \in 1..Len(L) |-> [style |-> ListStyleOf(L[i]), items |-> L[i].items]]

\* Index of the heading block with the given text (0 if there is none).
HeadingIndex(doc, text) ==
    IF \E i \in 1..Len(doc) : IsHeading(doc[i]) /\ BlockText(doc[i]) = text
    THEN CHOOSE i \in 1..Len(doc) : IsHeading(doc[i]) /\ BlockText(doc[i]) = text
    ELSE 0

-----------------------------------------------------------------------------
(* C1 *)

\* C1 as stated: when generate_doc has returned, the saved document has one
\* title-level heading followed by exactly ten level-1 headings and no
\* other heading.
C1_TenLevelOneHeadings ==
    result = "returned" =>
        HeadingLevels(LastSaved.blocks) = <<0, 1, 1, 1, 1, 1, 1, 1, 1, 1, 1>>

\* C1 (amended): after a successful run the heading blocks of the document
\* are exactly one title-level heading followed by exactly eleven level-1
\* headings, in the fixed order Title, Executive Summary, Scope &
\* Objectives, Architecture Overview, Key Directories, Setup &
\* Installation, Usage - Python, ONNX & Web Demo, Data Flow, Quality /
\* Performance / Risks, Roadmap, Appendix; there is no other heading.
C1_HeadingsInOrder ==
    result = "returned" =>
        /\ LastSaved.blocks = document
        /\ HeadingLevels(document) = <<0, 1, 1, 1, 1, 1, 1, 1, 1, 1, 1, 1>>
        /\ HeadingTexts(document) =
             << "Segment Anything Model (SAM) - Project Documentation",
                "1. Executive Summary",
                "2. Scope & Objectives",
                "3. Architecture Overview",
                "4. Key Directories & Files",
                "5. Setup & Installation",
                "6. Usage - Python",
                "7. ONNX & Web Demo",
                "8. Data Flow",
                "9. Quality, Performance, and Risks",
                "10. Roadmap & Next Steps",
                "Appendix A: References" >>

\* A script run that saved its document and ended normally.
C1_Witness ==
    /\ pc = "exit_ok"
    /\ result = "returned"
    /\ Len(HeadingsOf(LastSaved.blocks)) > 0

-----------------------------------------------------------------------------
(* C2 *)

-----------------------------------------------------------------------------
(* C3 *)

\* C3: when the docx import fails the process ends at the import guard with
\* the missing-dependency message and a failing exit code; generate_doc is
\* never entered, no document is created, no block appended, nothing is
\* printed and no step changes the file system.
C3_MissingDependency ==
    /\ [](~docx_available =>
            /\ pc \in {"import", "exit_missing_dep"}
            /\ calls = 0 /\ nsaves = 0
            /\ document = <<>> /\ call = NoCall
            /\ saved = <<>> /\ stdout = <<>>
            /\ pc = "exit_missing_dep" =>
                 stderr = MissingDependencyMessage /\ exit_code = 1)
    /\ [][~docx_available => fs' = fs]_vars

\* The process has ended at the import guard, an older file still in place.
C3_Witness ==
    /\ ~docx_available
    /\ pc = "exit_missing_dep"
    /\ stderr = MissingDependencyMessage
    /\ \E p \in Paths : fs[p] = OldFile

-----------------------------------------------------------------------------
(* C4 *)

\* C4: a failing save is neither caught nor retried: the script ends with
\* exit code 1 having printed nothing, after a single save attempt of a
\* single generate_doc call; and the success message is printed only after
\* a completed save, naming the path whose file holds the document.
C4_SaveFailurePropagates ==
    /\ nsaves <= 1
    /\ name = "__main__" => calls <= 1
    /\ (result = "raised" /\ name = "__main__") =>
          /\ pc = "exit_error"
          /\ exit_code = 1
          /\ stdout = <<>>
          /\ saved = <<>>
    /\ pc = "exit_error" => result = "raised"
    /\ stdout # <<>> =>
          /\ result = "returned"
          /\ Len(saved) = 1
          /\ stdout = <<[text |-> "Wrote documentation to: ", path |-> saved[1].path]>>
          /\ fs[saved[1].path] = Written(saved[1].blocks)
          /\ exit_code = 0

\* The script's save failed midway and the process ended in failure.
C4_Witness ==
    /\ name = "__main__"
    /\ pc = "exit_error"
    /\ result = "raised"
    /\ fs[output_path] = Truncated

-----------------------------------------------------------------------------
(* C5 *)

\* C5: in the document saved by a call that has returned the maximal runs of list items are exactly
\* the lists written in the generator, with their items in source order;
\* the blocks between the headings "2. Scope & Objectives" and
\* "3. Architecture Overview" are exactly four bulleted items, the first
\* being "Integrate SAM core components for promptable segmentation".
C5_ListsAreLiteral ==
    result = "returned" =>
        LET d == LastSaved.blocks
            a == HeadingIndex(d, "2. Scope & Objectives")
            b == HeadingIndex(d, "3. Architecture Overview")
        IN  /\ ListRuns(d) = LiteralLists
            /\ a > 0 /\ b = a + 5
            /\ \A i \in (a + 1)..(b - 1) : d[i].style = "List Bullet"
            /\ BlockText(d[a + 1]) =
                 "Integrate SAM core components for promptable segmentation"

\* A saved document with its lists in it.
C5_Witness ==
    /\ result = "returned"
    /\ Len(ListRuns(LastSaved.blocks)) = 9
    /\ HeadingIndex(LastSaved.blocks, "2. Scope & Objectives") > 0

-----------------------------------------------------------------------------
(* C6 *)

\* C6: a run of generate_doc calls document.save exactly once, after the
\* final Appendix bullet has been appended: no step before it touches the
\* file system, every step that does is the save of the complete document,
\* no block is appended once a save was attempted, and a completed save
\* leaves the document in the file whatever the path held before.
C6_SavedOnceAtEnd ==
    /\ [](nsaves <= 1)
    /\ [](pc = "gen" => nsaves = 0)
    /\ [](result = "returned" => nsaves = 1 /\ fs[output_path] = Written(document))
    /\ [][(fs' # fs \/ saved' # saved \/ nsaves' > nsaves) =>
            /\ AtSave
            /\ nsaves = 0 /\ nsaves' = 1
            /\ Len(document) = 68
            /\ BlockText(document[Len(document)]) = "Demo 'README.md' for web UI"
            /\ document' = document]_vars
    /\ [][document' # document => pc = "gen" /\ pc' = "gen" /\ nsaves' = 0]_vars

\* A completed save that replaced an older file.
C6_Witness ==
    /\ result = "returned"
    /\ nsaves = 1
    /\ saved[Len(saved)].before = OldFile
    /\ fs[output_path] = Written(document)

-----------------------------------------------------------------------------
(* C7 *)

\* C7 as stated: at every step of generate_doc the block sequence extends
\* the previous one, so no block already in the document ever changes.
C7_AppendOnly ==
    [][(pc = "gen" /\ ip >= 1) => IsPrefix(document, document')]_vars

\* C7 (amended): during generate_doc the block sequence never shrinks and
\* grows only at its end; the one block that changes after it was appended
\* is the last block of the document while the add_paragraph call that
\* appended it is still running (add_paragraph appends an empty paragraph
\* and then sets its run, bold, italic and alignment).  After the helper
\* that appended a block has returned, the block never changes.
C7_AppendOnlyExceptOpenParagraph ==
    [][(pc = "gen" /\ ip >= 1) =>
         /\ Len(document') >= Len(document)
         /\ \A i \in 1..Len(document) :
               document'[i] # document[i] =>
                 /\ call.op = "add_paragraph" /\ sub >= 1
                 /\ i = P /\ i = Len(document)
                 /\ Len(document') = Len(document)]_vars

\* add_paragraph is under way in generate_doc and has already changed the
\* paragraph it appended.
C7_Witness ==
    /\ pc = "gen"
    /\ call.op = "add_paragraph"
    /\ sub = 3
    /\ Len(document) > 1
    /\ document[P] # LibParagraph("", None)

-----------------------------------------------------------------------------
(* C8 *)

\* C8: add_paragraph appends exactly one paragraph whose alignment is
\* center for "center", right for "right" and left (unset) for every other
\* value, None and unrecognized strings included; no value stops the call,
\* and the block's text, bold and italic are the arguments given.
C8_AddParagraph ==
    /\ (call.op = "add_paragraph") => ENABLED HelperStep
    /\ (done_call.op = "add_paragraph") =>
          /\ Len(document) = Len(entry_doc) + 1
          /\ IsPrefix(entry_doc, document)
          /\ LET b == document[Len(document)] IN
               /\ b.style = "Normal"
               /\ Len(b.runs) = 1
               /\ BlockText(b) = done_call.text
               /\ b.runs[1].bold = PyBool(done_call.bold)
               /\ b.runs[1].italic = PyBool(done_call.italic)
               /\ EffectiveAlignment(b) =
                    CASE done_call.alignment = "center" -> "CENTER"
                      [] done_call.alignment = "right" -> "RIGHT"
                      [] OTHER -> "LEFT"

\* add_paragraph has returned from a call with an unrecognized alignment.
C8_Witness ==
    /\ done_call.op = "add_paragraph"
    /\ done_call.alignment = "justify"
    /\ done_call.bold /\ ~done_call.italic
    /\ entry_doc # <<>>

-----------------------------------------------------------------------------
(* C9 *)

\* C9: add_bullets (add_numbered) appends exactly len(items) blocks, the
\* i-th a bulleted (numbered) list item with text items[i], in input
\* order, after the blocks already in the document, which stay as they
\* were; with no items the document is unchanged.
C9_ListHelpersAppendItems ==
    /\ IsListCall(call) =>
          /\ Len(document) = Len(entry_doc) + sub
          /\ IsPrefix(entry_doc, document)
    /\ IsListCall(done_call) =>
          /\ Len(document) = Len(entry_doc) + Len(done_call.items)
          /\ IsPrefix(entry_doc, document)
          /\ \A i \in 1..Len(done_call.items) :
                LET b == document[Len(entry_doc) + i] IN
                /\ b.style = ListStyleOf(done_call)
                /\ BlockText(b) = done_call.items[i]
                /\ b.alignment = None
          /\ done_call.items = <<>> => document = entry_doc

\* add_bullets has returned from a call with distinct items on a document
\* that was not empty.
C9_Witness ==
    /\ done_call.op = "add_bullets"
    /\ Len(done_call.items) = MaxItems
    /\ done_call.items[1] # done_call.items[Len(done_call.items)]
    /\ entry_doc # <<>>

-----------------------------------------------------------------------------
(* C10 *)

\* C10: the document saved by any call of generate_doc that returns holds only the
\* blocks of that call: 68 blocks, of which 12 headings, 11 plain
\* paragraphs, 36 bullet items, 5 numbered items and 4 quote-styled blocks,
\* however many calls came before it.
C10_FreshDocumentPerCall ==
    result = "returned" =>
        LET d == LastSaved.blocks IN
        /\ LastSaved.call = calls
        /\ Len(d) = 68
        /\ Len(HeadingsOf(d)) = 12
        /\ CountStyle(d, {"Normal"}) = 11
        /\ CountStyle(d, {"List Bullet"}) = 36
        /\ CountStyle(d, {"List Number"}) = 5
        /\ CountStyle(d, {"Intense Quote"}) = 4
        /\ BlockText(d[1]) = "Segment Anything Model (SAM) - Project Documentation"

\* Two calls in one process have both saved their document.
C10_Witness ==
    /\ name = "generate_docs"
    /\ result = "returned"
    /\ Len(saved) = 2
    /\ saved[1].call = 1 /\ saved[2].call = 2
    /\ Len(saved[2].blocks) = 68

====
